---- MODULE Spec2Model ----
(***************************************************************************)
(* Model of the ingest / delete / search core of doc-mate.                 *)
(*                                                                         *)
(* Strings are sequences of one-character strings, so that prefix tests    *)
(* (str.startswith), substring tests (Qdrant MatchText) and str.split are  *)
(* computed on the characters as the code computes them.                   *)
(***************************************************************************)
EXTENDS Integers, Sequences, FiniteSets, TLC

VARIABLES books, summaries, bm25File, vec, last, steps, clean, upserted,
          fBm25, fEmbed, fAlpha, fK, fOut,
          disk, wpc, wbuf, wpos, rd,
          pIn, pOut,
          sem, layout, bpc, cpc, kpc

vars == <<books, summaries, bm25File, vec, last, steps, clean, upserted,
          fBm25, fEmbed, fAlpha, fK, fOut,
          disk, wpc, wbuf, wpos, rd,
          pIn, pOut,
          sem, layout, bpc, cpc, kpc>>

sysVars == <<books, summaries, bm25File, vec>>

fusionVars == <<fBm25, fEmbed, fAlpha, fK, fOut>>

\* the lexical artifact on disk, the ingests rebuilding it and a reader
rebuildVars == <<disk, wpc, wbuf, wpos, rd>>

\* the variables of the system and of the fusion functions
mainVars == <<books, summaries, bm25File, vec, last, steps, clean, upserted,
              fBm25, fEmbed, fAlpha, fK, fOut>>

\* the argument and the result of a chunker or of the diversifier
pureVars == <<pIn, pOut>>

\* the summariser: its semaphore, the batches of every section, and the
\* requests of the batches, of the sections and of the document
sumVars == <<sem, layout, bpc, cpc, kpc>>

\* the variables of the component models
auxVars == <<rebuildVars, pureVars, sumVars>>

(***************************************************************************)
(* Bounds                                                                  *)
(***************************************************************************)
\* sections returned by one re.split of a source file
MaxSections == 1

\* distinct non-empty section texts a source file may contain
NumTexts == 2

\* operations (ingest, delete, search) in one run of the system
MaxOps == 3

\* largest top_k a search is asked for
MaxTopK == 2

\* hex digits of the content hash kept in a chunk id (7 in the code)
HashLen == 2

\* chunk ids in one hydration request
MaxRequest == 2

(***************************************************************************)
(* Characters and strings                                                  *)
(***************************************************************************)
Alphabet ==
  <<"0", "1", "2", "3", "4", "5", "6", "7", "8", "9",
    "a", "b", "c", "d", "e", "f", "_", "-", "!">>

DigitChars == {Alphabet[i] : i \in 1..10}

AlnumChars == {Alphabet[i] : i \in 1..16}

Code(ch) == CHOOSE i \in 1..Len(Alphabet) : Alphabet[i] = ch

Range(s) == {s[i] : i \in DOMAIN s}

\* str.startswith
StartsWith(s, p) ==
  /\ Len(p) <= Len(s)
  /\ SubSeq(s, 1, Len(p)) = p

\* substring test, as a text match on a payload field without a text index
Contains(s, p) ==
  \E i \in 1..(Len(s) - Len(p) + 1) : SubSeq(s, i, i + Len(p) - 1) = p

\* f"{n:02d}"
Digits2(n) == <<Alphabet[((n \div 10) % 10) + 1], Alphabet[(n % 10) + 1]>>

\* f"{n:03d}"
Digits3(n) == <<Alphabet[((n \div 100) % 10) + 1]>> \o Digits2(n % 100)

\* s.replace(ch, "")
Strip(s, ch) == SelectSeq(s, LAMBDA c : c # ch)

\* str.isalnum: non-empty and every character alphanumeric
IsAlnum(s) == s # <<>> /\ \A i \in DOMAIN s : s[i] \in AlnumChars

\* s.split("_")[1] : the characters between the first and the second
\* underscore (or the end of the string)
Segment2(s) ==
  LET us == {i \in DOMAIN s : s[i] = "_"}
      first == CHOOSE i \in us : \A j \in us : i <= j
      later == {i \in us : i > first}
      stop == IF later = {} THEN Len(s) + 1
              ELSE CHOOSE i \in later : \A j \in later : i <= j
  IN SubSeq(s, first + 1, stop - 1)

\* int(s) succeeds on a non-empty string of decimal digits
IsInt(s) == s # <<>> /\ \A i \in DOMAIN s : s[i] \in DigitChars

RECURSIVE IntOf(_)
IntOf(s) == IF s = <<>> THEN 0
            ELSE 10 * IntOf(SubSeq(s, 1, Len(s) - 1)) + (Code(s[Len(s)]) - 1)

(***************************************************************************)
(* Slugs, source files and chunks                                          *)
(***************************************************************************)
\* the slugs an ingest may be asked for; "a!" has an invalid format
Slugs == { <<"a", "b">>, <<"a", "b", "_", "1">>, <<"a", "b", "_", "c">>,
           <<"a", "!">> }

\* no document filter (None or the empty string: both are falsy)
NoSlug == <<>>

Word(n) == IF n = 0 THEN "cat" ELSE IF n = 1 THEN "the" ELSE "dog"

\* the words of section text number t (t >= 1)
TextWords(t) == [j \in 1..t |-> Word((t + j) % 3)]

\* hashlib.md5(text).hexdigest()[:length], on the texts of the model
simple_hash(t) == [j \in 1..HashLen |-> Alphabet[((t \div (IF j = HashLen THEN 1 ELSE 16)) % 16) + 1]]

ChunkId(slug, sid, cid, t) ==
  slug \o <<"_">> \o Digits2(sid) \o <<"_">> \o Digits3(cid) \o <<"_">> \o simple_hash(t)

\* a source file, as the list of sections re.split returns: text number, or
\* 0 for an empty fragment
Files == UNION { [1..n -> 0..NumTexts] : n \in 0..MaxSections }

\* tokens[i : i + max_tokens] windows of one section; a non-empty section of
\* the model fits one window, an empty one has no window
chunk_split(t) == IF t = 0 THEN <<>> ELSE <<t>>

\* GutenbergReader._parse_into_chunks
parse_into_chunks(slug, file) ==
  LET all == [sid \in 1..Len(file) |->
                [id |-> ChunkId(slug, sid, 1, file[sid]), text |-> file[sid]]]
  IN SelectSeq(all, LAMBDA c : chunk_split(c.text) # <<>>)

\* the slug a chunk id was generated for: the id without its fixed-width
\* "_uu_ooo_hash" suffix
OwnerOf(id) == SubSeq(id, 1, Len(id) - (8 + HashLen))

(***************************************************************************)
(* Lexical index (BM25)                                                    *)
(***************************************************************************)
STOPWORDS == {"the", "a", "an", "and", "of", "in", "to"}

\* k1 = 1.5, in halves
K1x2 == 3

\* b = 0.75, in quarters
Bx4 == 3

\* fixed-point unit of idf values and scores
LnScale == 10000

\* terms of the series that evaluates the logarithm
LnTerms == 12

\* re.findall(r"\w+", text.lower()) minus the stop words; a text of the model
\* is already a list of lower-case words
simple_tokenize(words) == SelectSeq(words, LAMBDA w : w \notin STOPWORDS)

RECURSIVE LnSeries(_, _, _)
LnSeries(term, z2, k) ==
  IF k > LnTerms \/ term = 0 THEN 0
  ELSE (term \div (2 * k - 1)) + LnSeries((term * z2) \div LnScale, z2, k + 1)

\* math.log(p / q) for p >= q > 0, in units of 1/LnScale:
\* ln(x) = 2 * atanh((x - 1) / (x + 1))
Ln(p, q) ==
  LET z == ((p - q) * LnScale) \div (p + q)
  IN 2 * LnSeries(z, (z * z) \div LnScale, 1)

\* BM25Retriever.build_index: the tokenised documents
Docs(chunks) == [i \in DOMAIN chunks |-> simple_tokenize(TextWords(chunks[i].text))]

RECURSIVE SumLens(_)
SumLens(docs) == IF docs = <<>> THEN 0
                 ELSE Len(docs[Len(docs)]) + SumLens(SubSeq(docs, 1, Len(docs) - 1))

\* df[word]: the number of documents containing the word
Df(docs, w) == Cardinality({i \in DOMAIN docs : w \in Range(docs[i])})

\* idf[word] = log((N - df + 0.5) / (df + 0.5) + 1) = log((2N + 2) / (2df + 1))
Idf(docs, w) == Ln(2 * Len(docs) + 2, 2 * Df(docs, w) + 1)

\* Counter(doc)[term]
Tf(doc, w) == Cardinality({j \in DOMAIN doc : doc[j] = w})

\* one term's contribution: idf * tf*(k1+1) / (tf + k1*(1 - b + b*len/avgdl)),
\* with avgdl = SumLens/N, numerator and denominator multiplied by 8*SumLens
TermScore(docs, idx, w) ==
  LET tf == Tf(docs[idx], w)
      sl == SumLens(docs)
      numer == 4 * tf * (K1x2 + 2) * sl
      denom == 8 * tf * sl + K1x2 * (4 - Bx4) * sl
                 + K1x2 * Bx4 * Len(docs[idx]) * Len(docs)
  IN IF tf = 0 THEN 0 ELSE (Idf(docs, w) * numer) \div denom

RECURSIVE score(_, _, _)
\* BM25Retriever.score
score(docs, query_tokens, idx) ==
  IF query_tokens = <<>> THEN 0
  ELSE score(docs, SubSeq(query_tokens, 1, Len(query_tokens) - 1), idx)
         + TermScore(docs, idx, query_tokens[Len(query_tokens)])

\* an unstable variant: e goes in front of the entries of equal score
InsertDescUnstable(sorted, e) ==
  LET k == Cardinality({j \in DOMAIN sorted : sorted[j].s > e.s})
  IN SubSeq(sorted, 1, k) \o <<e>> \o SubSeq(sorted, k + 1, Len(sorted))

\* the place sorted(key=-score) gives e among entries already in order:
\* behind every entry whose score is at least as large (the sort is stable)
InsertDesc(sorted, e) ==
  LET k == Cardinality({j \in DOMAIN sorted : sorted[j].s >= e.s})
  IN SubSeq(sorted, 1, k) \o <<e>> \o SubSeq(sorted, k + 1, Len(sorted))

RECURSIVE SortDesc(_)
\* sorted(entries, key=lambda x: -x[1])
SortDesc(entries) ==
  IF entries = <<>> THEN <<>>
  ELSE InsertDesc(SortDesc(SubSeq(entries, 1, Len(entries) - 1)), entries[Len(entries)])

\* seq[:n]
Take(seq, n) == SubSeq(seq, 1, IF n < Len(seq) THEN n ELSE Len(seq))

\* the indices the filter lets through, ascending
ValidIndices(chunks, book_slug) ==
  SelectSeq([i \in DOMAIN chunks |-> i],
            LAMBDA i : book_slug = NoSlug \/ StartsWith(chunks[i].id, book_slug \o <<"_">>))

\* BM25Retriever.search: entries [i, s, id] in result order
bm25_search(chunks, query, topk, book_slug) ==
  LET docs == Docs(chunks)
      query_tokens == simple_tokenize(query)
      valid == ValidIndices(chunks, book_slug)
      scores == [n \in DOMAIN valid |->
                   [i |-> valid[n], s |-> score(docs, query_tokens, valid[n]),
                    id |-> chunks[valid[n]].id]]
  IN Take(SortDesc(scores), topk)

\* BM25Retriever.score divides by avgdl: ZeroDivisionError when a scored
\* document holds a query term while the average length is 0
score_raises(chunks, query, book_slug) ==
  LET docs == Docs(chunks)
      valid == ValidIndices(chunks, book_slug)
  IN \E n \in DOMAIN valid : \E w \in Range(simple_tokenize(query)) :
       Tf(docs[valid[n]], w) > 0 /\ SumLens(docs) = 0

(***************************************************************************)
(* Vector index                                                            *)
(***************************************************************************)
\* number of values of the model's stand-in for the md5 digest.  The keys
\* derived from md5 are many-to-one on chunk ids (the ids
\* doc25_21_004_567093a and doc64_11_005_d1dd338 both get 973397818); the
\* stand-in is many-to-one on the ids of the model
DigestSpace == 16

\* point ids are taken modulo 10**9
PointSpace == 1000000000

RECURSIVE Md5Int(_)
\* int(hashlib.md5(s).hexdigest()[:16], 16): a deterministic digest of the
\* characters of s
Md5Int(s) ==
  IF s = <<>> THEN 7
  ELSE (Md5Int(SubSeq(s, 1, Len(s) - 1)) * 31 + Code(s[Len(s)])) % DigestSpace

PointId(id) == Md5Int(id) % PointSpace

Put(f, k, v) == [x \in (DOMAIN f) \cup {k} |-> IF x = k THEN v ELSE f[x]]

Drop(f, k) == [x \in (DOMAIN f) \ {k} |-> f[x]]

RECURSIVE Upsert(_, _)
\* qdrant.upsert: later points replace earlier ones that have the same key
Upsert(points, chunks) ==
  IF chunks = <<>> THEN points
  ELSE Put(Upsert(points, SubSeq(chunks, 1, Len(chunks) - 1)),
           PointId(chunks[Len(chunks)].id), chunks[Len(chunks)])

\* SemanticRetriever.build_index, after the embedding succeeded
vec_build_index(v, chunks) == [exists |-> TRUE, points |-> Upsert(v.points, chunks)]

\* similarity of the query and a stored text, the embedder's part: the number
\* of query words the text shares
Sim(query, t) == Cardinality(Range(query) \cap Range(TextWords(t)))

RECURSIVE RankKeys(_, _, _, _)
\* the hits in descending similarity; rev is the order the store happens to
\* give hits of equal similarity
RankKeys(points, keys, query, rev) ==
  IF keys = {} THEN <<>>
  ELSE LET best == CHOOSE k \in keys : \A j \in keys :
                     \/ Sim(query, points[k].text) > Sim(query, points[j].text)
                     \/ /\ Sim(query, points[k].text) = Sim(query, points[j].text)
                        /\ IF rev THEN k >= j ELSE k <= j
       IN <<best>> \o RankKeys(points, keys \ {best}, query, rev)

\* the payloads the filter lets through: MatchText on the payload field "id"
MatchText(points, book_slug) ==
  {k \in DOMAIN points : book_slug = NoSlug \/ Contains(points[k].id, book_slug)}

\* the text of the sentinel payload, "[Text not found]"; the texts of stored
\* chunks are the numbers from 1 on
TextNotFound == -1

RECURSIVE get_chunks_by_ids(_, _, _)
\* SemanticRetriever.get_chunks_by_ids; fail_pos is the position of the
\* request at which qdrant.retrieve raises (0: it never raises)
get_chunks_by_ids(v, chunk_ids, fail_pos) ==
  IF ~v.exists \/ chunk_ids = <<>> THEN <<>>
  ELSE LET n == Len(chunk_ids)
           chunk_id == chunk_ids[n]
           point_id == PointId(chunk_id)
           results == get_chunks_by_ids(v, SubSeq(chunk_ids, 1, n - 1), fail_pos)
       IN IF n = fail_pos
          THEN Append(results, [id |-> chunk_id, text |-> TextNotFound])
          ELSE IF point_id \in DOMAIN v.points
          THEN Append(results, [id |-> v.points[point_id].id,
                                text |-> v.points[point_id].text])
          ELSE results

\* SemanticRetriever.search: the ids of the hits, in order
vec_search(v, query, topk, book_slug, rev) ==
  IF ~v.exists THEN <<>>
  ELSE LET ranked == RankKeys(v.points, MatchText(v.points, book_slug), query, rev)
       IN [n \in DOMAIN Take(ranked, topk) |-> v.points[ranked[n]].id]

(***************************************************************************)
(* Fusion                                                                  *)
(***************************************************************************)
\* alpha = 0.7, in tenths
BaseAlpha == 7

\* c of reciprocal-rank fusion
RrfC == 60

\* candidate_multiplier of AdaptiveRetriever.search
CandidateMultiplier == 3

RECURSIVE Gcd(_, _)
Gcd(a, b) == IF b = 0 THEN a ELSE Gcd(b, a % b)

RECURSIVE LcmRange(_, _)
\* least common multiple of lo..hi: the unit in which the reciprocals of the
\* ranks are whole numbers
LcmRange(lo, hi) ==
  IF hi < lo THEN 1
  ELSE LET l == LcmRange(lo, hi - 1) IN (l \div Gcd(l, hi)) * hi

RECURSIVE RankSum(_, _, _, _)
\* the sum of unit / (offset + rank) over the 1-based ranks at which id stands
RankSum(ids, id, unit, offset) ==
  IF ids = <<>> THEN 0
  ELSE RankSum(SubSeq(ids, 1, Len(ids) - 1), id, unit, offset)
         + (IF ids[Len(ids)] = id THEN unit \div (offset + Len(ids)) ELSE 0)

RECURSIVE Dedup(_)
\* the keys of a dict in insertion order
Dedup(ids) ==
  IF ids = <<>> THEN <<>>
  ELSE LET d == Dedup(SubSeq(ids, 1, Len(ids) - 1))
       IN IF ids[Len(ids)] \in Range(d) THEN d ELSE Append(d, ids[Len(ids)])

MaxOf(a, b) == IF a >= b THEN a ELSE b

\* a variant with the two weights exchanged
WeightedScoreSwapped(id, bm25_ids, embed_ids, alpha) ==
  LET unit == LcmRange(1, MaxOf(Len(bm25_ids), Len(embed_ids)))
  IN (10 - alpha) * RankSum(bm25_ids, id, unit, 0)
       + alpha * RankSum(embed_ids, id, unit, 0)

\* scores[id] of weighted fusion, times 10 * unit
WeightedScore(id, bm25_ids, embed_ids, alpha) ==
  LET unit == LcmRange(1, MaxOf(Len(bm25_ids), Len(embed_ids)))
  IN alpha * RankSum(bm25_ids, id, unit, 0)
       + (10 - alpha) * RankSum(embed_ids, id, unit, 0)

\* a variant that accumulates over the first ranking only
RrfScoreLexicalOnly(id, bm25_ids, embed_ids, c) ==
  LET unit == LcmRange(c + 1, c + MaxOf(Len(bm25_ids), Len(embed_ids)))
  IN RankSum(bm25_ids, id, unit, c)

\* ranks[id] of reciprocal-rank fusion, times unit
RrfScore(id, bm25_ids, embed_ids, c) ==
  LET unit == LcmRange(c + 1, c + MaxOf(Len(bm25_ids), Len(embed_ids)))
  IN RankSum(bm25_ids, id, unit, c) + RankSum(embed_ids, id, unit, c)

IdsOf(entries) == [n \in DOMAIN entries |-> entries[n].id]

\* FusionRetriever.weighted_fusion, and the fusion loop of
\* AdaptiveRetriever.search
weighted_fusion(bm25_ids, embed_ids, alpha, topk) ==
  LET keys == Dedup(bm25_ids \o embed_ids)
      scores == [n \in DOMAIN keys |->
                   [id |-> keys[n], s |-> WeightedScore(keys[n], bm25_ids, embed_ids, alpha)]]
  IN IdsOf(Take(SortDesc(scores), topk))

\* a variant that accumulates c + rank instead of its reciprocal
rrf_fusion_rank_sum(bm25_ids, embed_ids, k, c) ==
  LET keys == Dedup(bm25_ids \o embed_ids)
      pos(ids, id) == IF id \in Range(ids)
                      THEN c + (CHOOSE r \in DOMAIN ids : ids[r] = id) ELSE 0
      ranks == [n \in DOMAIN keys |->
                  [id |-> keys[n], s |-> pos(bm25_ids, keys[n]) + pos(embed_ids, keys[n])]]
  IN IdsOf(Take(SortDesc(ranks), k))

\* FusionRetriever.rrf_fusion
rrf_fusion(bm25_ids, embed_ids, k, c) ==
  LET keys == Dedup(bm25_ids \o embed_ids)
      ranks == [n \in DOMAIN keys |->
                  [id |-> keys[n], s |-> RrfScore(keys[n], bm25_ids, embed_ids, c)]]
  IN IdsOf(Take(SortDesc(ranks), k))

\* stop words of the adaptive preprocessor
STOP_WORDS ==
  {"what", "when", "where", "who", "why", "how", "does", "do", "did", "is",
   "are", "was", "were", "the", "a", "an", "about", "in", "on", "at", "to",
   "for", "of", "with", "by", "from", "this", "that", "these", "those",
   "and", "or", "but"}

\* len(w) of the words of the model
WordLen(w) == IF w \in {"is", "to", "do", "a"} THEN 2 ELSE 3

\* AdaptiveRetriever.preprocess_query
preprocess_query(query) ==
  LET filtered_words == SelectSeq(query, LAMBDA w : w \notin STOP_WORDS /\ WordLen(w) > 2)
  IN IF filtered_words = <<>> THEN query ELSE filtered_words

\* AdaptiveRetriever.search on a freshly constructed retriever; the result
\* carries the two rankings next to the fused ids
adaptive_search(file, v, query, topk, book_slug, rev) ==
  IF ~file.exists
  THEN [bm25 |-> <<>>, embed |-> vec_search(v, query, topk, book_slug, rev),
        ids |-> vec_search(v, query, topk, book_slug, rev), raised |-> FALSE]
  ELSE LET candidate_count == topk * CandidateMultiplier
           embed_results == vec_search(v, query, candidate_count, book_slug, rev)
           bm25_results == bm25_search(file.chunks, preprocess_query(query),
                                       candidate_count, book_slug)
       IN [bm25 |-> bm25_results, embed |-> embed_results,
           ids |-> weighted_fusion(IdsOf(bm25_results), embed_results, BaseAlpha, topk),
           raised |-> score_raises(file.chunks, preprocess_query(query), book_slug)]

(***************************************************************************)
(* Relational store                                                        *)
(***************************************************************************)
\* PgresStore.book_exists
book_exists(b, slug) == slug \in DOMAIN b

\* PgresStore.delete_book: the row of the books table
pg_delete_book(b, slug) == Drop(b, slug)

\* ON DELETE CASCADE of chapter_summaries and book_summaries
cascade_summaries(s, slug) == Drop(s, slug)

\* PgresStore.store_document: insert or replace the document row
store_document(b, slug, num_chunks) == Put(b, slug, [num_chunks |-> num_chunks])

\* PgresStore.store_summaries
store_summaries(s, slug, chapter_ids) == Put(s, slug, [chapters |-> chapter_ids, book |-> TRUE])

\* PgresStore.get_book_summary is not None
has_book_summary(s, slug) == slug \in DOMAIN s

\* PgresStore.get_all_chapter_summaries: the chapter ids stored
get_all_chapter_summaries(s, slug) == IF slug \in DOMAIN s THEN s[slug].chapters ELSE {}

(***************************************************************************)
(* Ingest                                                                  *)
(***************************************************************************)
\* the second condition of validate_inputs: the slug, without "_" and "-",
\* is alphanumeric
valid_slug_format(slug) == slug # <<>> /\ IsAlnum(Strip(Strip(slug, "_"), "-"))

\* summarize_hierarchy parses the section number of every chunk with
\* int(id.split("_")[1])
sids_parse(chunks) == \A i \in DOMAIN chunks : IsInt(Segment2(chunks[i].id))

\* the keys of section_map
section_ids(chunks) == {IntOf(Segment2(chunks[i].id)) : i \in DOMAIN chunks}

\* store_to_db: the books table afterwards
store_to_db_books(b, slug, num_chunks, force_update) ==
  store_document(IF force_update /\ book_exists(b, slug) THEN pg_delete_book(b, slug) ELSE b,
                 slug, num_chunks)

\* store_to_db: the summary tables afterwards
store_to_db_summaries(s, b, slug, chapter_ids, force_update) ==
  LET s1 == IF force_update /\ book_exists(b, slug) THEN cascade_summaries(s, slug) ELSE s
  IN IF chapter_ids # {} THEN store_summaries(s1, slug, chapter_ids) ELSE s1

\* build_search_indexes, the lexical half: load, append, rebuild, save
append_bm25(file, chunks) ==
  [exists |-> TRUE, chunks |-> (IF file.exists THEN file.chunks ELSE <<>>) \o chunks]

\* the points at which a collaborator of the pipeline may fail
FailPoints == {"none", "summarize", "vector"}

NoLast ==
  [op |-> "init", slug |-> NoSlug, force |-> FALSE, ok |-> TRUE, stage |-> "",
   query |-> <<>>, topk |-> 0, ids |-> <<>>, bm25 |-> <<>>, embed |-> <<>>,
   req |-> <<>>, fail_pos |-> 0, payloads |-> <<>>,
   kind |-> "", strict |-> FALSE, rev |-> FALSE, fail |-> "none", error |-> "",
   num_results |-> 0]

\* ingest_document: validate, parse, summarise, store, index, verify
IngestDocument(slug, file, force_update, fail) ==
  LET chunks == parse_into_chunks(slug, file)
      done(ok, stage) == [NoLast EXCEPT !.op = "ingest", !.slug = slug,
                            !.force = force_update, !.ok = ok, !.stage = stage]
  IN
  /\ steps < MaxOps
  /\ steps' = steps + 1
  /\ UNCHANGED <<fusionVars, auxVars>>
  /\ IF \/ ~valid_slug_format(slug)
        \/ (book_exists(books, slug) /\ ~force_update)
     THEN /\ UNCHANGED <<sysVars, upserted>>
          /\ last' = done(FALSE, "validate")
     ELSE IF ~sids_parse(chunks) \/ fail = "summarize"
     THEN /\ UNCHANGED <<sysVars, upserted>>
          /\ last' = done(FALSE, "summarize")
     ELSE /\ books' = store_to_db_books(books, slug, Len(chunks), force_update)
          /\ summaries' = store_to_db_summaries(summaries, books, slug,
                                                section_ids(chunks), force_update)
          /\ bm25File' = append_bm25(bm25File, chunks)
          /\ IF chunks = <<>> \/ fail = "vector"
             THEN /\ UNCHANGED <<vec, upserted>>
                  /\ last' = done(FALSE, "vector")
             ELSE /\ vec' = vec_build_index(vec, chunks)
                  /\ upserted' = upserted \cup Range(chunks)
                  /\ last' = IF has_book_summary(summaries', slug)
                                /\ book_exists(books', slug)
                             THEN done(TRUE, "verify")
                             ELSE done(FALSE, "verify")
  /\ clean' = (clean /\ last'.ok)

(***************************************************************************)
(* Delete                                                                  *)
(***************************************************************************)
\* the chunks delete_book keeps when it rebuilds the lexical index
remaining_chunks(chunks, slug) ==
  SelectSeq(chunks, LAMBDA c : ~StartsWith(c.id, slug \o <<"_">>))

\* the Qdrant step of delete_book: the retriever has no attribute
\* qdrant_client, the AttributeError is caught by the inner handler and no
\* point is deleted
qdrant_delete(v, slug) == v

\* ui.utils.delete_book
DeleteBook(slug) ==
  LET done(ok, stage) == [NoLast EXCEPT !.op = "delete", !.slug = slug,
                            !.ok = ok, !.stage = stage]
  IN
  /\ steps < MaxOps
  /\ steps' = steps + 1
  /\ UNCHANGED <<fusionVars, upserted, auxVars>>
  /\ IF ~book_exists(books, slug)
     THEN /\ UNCHANGED sysVars
          /\ last' = done(FALSE, "not found")
     ELSE /\ books' = pg_delete_book(books, slug)
          /\ summaries' = cascade_summaries(summaries, slug)
          /\ IF ~bm25File.exists
             THEN /\ UNCHANGED <<bm25File, vec>>
                  /\ last' = done(FALSE, "load")
             ELSE /\ bm25File' = [bm25File EXCEPT !.chunks = remaining_chunks(@, slug)]
                  /\ vec' = qdrant_delete(vec, slug)
                  /\ last' = done(TRUE, "deleted")
  /\ clean' = (clean /\ last'.ok)

(***************************************************************************)
(* Search                                                                  *)
(***************************************************************************)
Queries == { <<"the">>, <<"is", "dog", "cat">> }

\* AdaptiveRetriever.id_search(query, topk, book_slug=...)
Search(query, topk, book_slug, rev) ==
  LET r == adaptive_search(bm25File, vec, query, topk, book_slug, rev)
  IN /\ steps < MaxOps
     /\ steps' = steps + 1
     /\ last' = [NoLast EXCEPT !.op = "search", !.slug = book_slug, !.query = query,
                   !.topk = topk, !.ids = r.ids, !.bm25 = r.bm25, !.embed = r.embed,
                   !.ok = ~r.raised,
                   !.stage = IF ~bm25File.exists THEN "vector-only" ELSE "hybrid"]
     /\ UNCHANGED sysVars
     /\ UNCHANGED <<clean, upserted>>
     /\ UNCHANGED <<fusionVars, auxVars>>

\* the chunk ids the chunker can emit for the slugs that pass validation
EmittedIds ==
  {ChunkId(slug, sid, 1, t) :
     slug \in {x \in Slugs : valid_slug_format(x)}, sid \in 1..MaxSections, t \in 1..NumTexts}

Requests == UNION {[1..n -> EmittedIds] : n \in 1..MaxRequest}

\* a hydration of search results: retriever.vec.get_chunks_by_ids(chunk_ids)
Hydrate(chunk_ids, fail_pos) ==
  /\ steps < MaxOps
  /\ steps' = steps + 1
  /\ last' = [NoLast EXCEPT !.op = "hydrate", !.req = chunk_ids, !.fail_pos = fail_pos,
                !.payloads = get_chunks_by_ids(vec, chunk_ids, fail_pos)]
  /\ UNCHANGED sysVars
  /\ UNCHANGED <<clean, upserted>>
  /\ UNCHANGED <<fusionVars, auxVars>>

NoFusion == [op |-> "none", ids |-> <<>>]

\* ingests that rebuild the lexical artifact concurrently
NumWriters == 2

Writers == 1..NumWriters

\* no artifact on disk, no ingest under way, nothing loaded by the reader
IdleRebuild ==
  /\ disk = [exists |-> FALSE, bytes |-> <<>>]
  /\ wpc = [p \in Writers |-> "idle"]
  /\ wbuf = [p \in Writers |-> <<>>]
  /\ wpos = [p \in Writers |-> 0]
  /\ rd = [status |-> "none", ids |-> <<>>]

\* no chunker or diversifier call
NoCall == [kind |-> "none"]

IdlePure == pIn = NoCall /\ pOut = NoCall

\* asyncio.Semaphore(4)
SemaphorePermits == 4

\* no summarisation under way
IdleSummarize ==
  /\ sem = SemaphorePermits
  /\ layout = <<>>
  /\ bpc = <<>>
  /\ cpc = <<>>
  /\ kpc = [phase |-> "idle", left |-> 0, parts |-> 0]

IdleAux == IdleRebuild /\ IdlePure /\ IdleSummarize

\* empty stores and indexes, no operation yet, no fusion call
IdleMain ==
  /\ books = <<>>
  /\ summaries = <<>>
  /\ bm25File = [exists |-> FALSE, chunks |-> <<>>]
  /\ vec = [exists |-> FALSE, points |-> <<>>]
  /\ last = NoLast
  /\ steps = 0
  /\ clean = TRUE
  /\ upserted = {}
  /\ fBm25 = <<>>
  /\ fEmbed = <<>>
  /\ fAlpha = BaseAlpha
  /\ fK = 0
  /\ fOut = NoFusion

Init == IdleMain /\ IdleAux

Next ==
  \/ \E slug \in Slugs, file \in Files, force_update \in BOOLEAN, fail \in FailPoints :
       IngestDocument(slug, file, force_update, fail)
  \/ \E slug \in Slugs : DeleteBook(slug)
  \/ \E query \in Queries, topk \in 1..MaxTopK, book_slug \in Slugs \cup {NoSlug},
        rev \in BOOLEAN :
       Search(query, topk, book_slug, rev)

Spec == Init /\ [][Next]_vars

(***************************************************************************)
(* search_book_content                                                     *)
(*                                                                         *)
(* The identifier of document doc is its slug, its title or its integer    *)
(* book_id.  A title is the text "T" followed by the slug, a book_id is    *)
(* written "1" when it is formatted into a filter.  strict tells whether   *)
(* the filter model of the vector client rejects an integer as text with   *)
(* a validation error or takes it as its decimal text.                     *)
(***************************************************************************)
\* PgresStore._resolve_book_id(book_identifier) is not None: an integer is
\* returned as it is, a string is looked up as slug and then as title
resolve_book_id(b, kind, doc) == kind = "id" \/ book_exists(b, doc)

\* search_book_content: the record it returns; fail is the step that
\* raises ("store": the connection or the lookup, "search": the retrieval)
search_book_content(b, file, v, query, kind, doc, strict, limit, rev, fail) ==
  LET book_identifier == IF kind = "slug" THEN doc
                         ELSE IF kind = "title" THEN <<"T">> \o doc
                         ELSE <<"1">>
      r == adaptive_search(file, v, query, limit, book_identifier, rev)
      chunks_full == get_chunks_by_ids(v, r.ids, 0)
      failed(error) == [chunk_ids |-> <<>>, chunks |-> <<>>, num_results |-> 0,
                        error |-> error]
  IN IF fail = "store" THEN failed("exception")
     ELSE IF ~resolve_book_id(b, kind, doc) THEN failed("Book not found")
     ELSE IF fail = "search" \/ r.raised \/ (kind = "id" /\ strict /\ v.exists)
     THEN failed("exception")
     ELSE [chunk_ids |-> [n \in DOMAIN chunks_full |-> chunks_full[n].id],
           chunks |-> chunks_full, num_results |-> Len(chunks_full), error |-> ""]

\* ingests that may come before a call of search_book_content
MaxIngestsBefore == 1

\* a call of search_book_content.  It changes no store and no index, so a
\* run is not followed beyond it: what could come next can also come
\* without it
SearchBookContent(query, kind, doc, strict, limit, rev, fail) ==
  LET result == search_book_content(books, bm25File, vec, query, kind, doc, strict, limit,
                                    rev, fail)
  IN /\ steps < MaxOps
     /\ steps <= MaxIngestsBefore
     /\ strict => kind = "id"
     /\ steps' = MaxOps
     /\ last' = [NoLast EXCEPT !.op = "search_content", !.slug = doc, !.kind = kind,
                   !.strict = strict, !.query = query, !.topk = limit, !.rev = rev,
                   !.fail = fail, !.ids = result.chunk_ids, !.payloads = result.chunks,
                   !.num_results = result.num_results, !.error = result.error,
                   !.ok = (result.error = "")]
     /\ UNCHANGED sysVars
     /\ UNCHANGED <<clean, upserted>>
     /\ UNCHANGED <<fusionVars, auxVars>>

SpecQuery ==
  Init /\ [][(\E slug \in Slugs, file \in Files, force_update \in BOOLEAN,
                 fail \in FailPoints :
                IngestDocument(slug, file, force_update, fail))
             \/ (\E query \in Queries, kind \in {"slug", "title", "id"}, doc \in Slugs,
                    strict \in BOOLEAN, limit \in 1..MaxTopK, rev \in BOOLEAN,
                    step \in {"none", "store", "search"} :
                   SearchBookContent(query, kind, doc, strict, limit, rev, step))]_vars

(***************************************************************************)
(* Ingests with slugs of every format                                      *)
(***************************************************************************)
\* a slug of one character, a slug of the usual form and a slug with a
\* character outside the pattern
FormatSlugs == { <<"a">>, <<"a", "b">>, <<"a", "!">> }

VNext ==
  \E slug \in FormatSlugs, file \in Files, force_update \in BOOLEAN, fail \in FailPoints :
    IngestDocument(slug, file, force_update, fail)

SpecValidate == Init /\ [][VNext]_vars

(***************************************************************************)
(* The vector index on its own: upserts and hydrations                     *)
(***************************************************************************)
\* SemanticRetriever.build_index on the chunks of a document that passed
\* validation and summarisation; an empty list of chunks raises IndexError
\* before anything is written
BuildIndex(slug, file) ==
  LET chunks == parse_into_chunks(slug, file)
  IN /\ steps < MaxOps
     /\ valid_slug_format(slug)
     /\ sids_parse(chunks)
     /\ steps' = steps + 1
     /\ IF chunks = <<>>
        THEN /\ UNCHANGED <<vec, upserted>>
             /\ last' = [NoLast EXCEPT !.op = "build_index", !.slug = slug, !.ok = FALSE]
        ELSE /\ vec' = vec_build_index(vec, chunks)
             /\ upserted' = upserted \cup Range(chunks)
             /\ last' = [NoLast EXCEPT !.op = "build_index", !.slug = slug]
     /\ UNCHANGED <<books, summaries, bm25File, clean>>
     /\ UNCHANGED <<fusionVars, auxVars>>

HNext ==
  \/ \E slug \in Slugs, file \in Files : BuildIndex(slug, file)
  \/ \E chunk_ids \in Requests : \E fail_pos \in 0..Len(chunk_ids) :
       Hydrate(chunk_ids, fail_pos)

SpecHydrate == Init /\ [][HNext]_vars

(***************************************************************************)
(* The lexical artifact: concurrent rebuilds and loads                     *)
(*                                                                         *)
(* The artifact is a list of blocks, written one block at a time: a frame  *)
(* block holding the number of entries, then one block per chunk.  Ingest  *)
(* p adds the chunk ChunkOf(p).  Every ingest and the reader run in their   *)
(* own process (command line, web UI, MCP server).                         *)
(***************************************************************************)
\* the block a hole of a sparse file reads as
Hole == 0

\* the chunk ingest p adds to the index
ChunkOf(p) == 10 + p

\* pickle.dump(index_data, f): the blocks of the artifact for a list of ids
Pickle(ids) == <<Len(ids)>> \o ids

\* pickle.load on the blocks read: the ids, when the frame is complete
Complete(bytes) ==
  /\ bytes # <<>>
  /\ Len(bytes) = bytes[1] + 1
  /\ \A i \in 2..Len(bytes) : bytes[i] # Hole

\* BM25Retriever.load_index: FileNotFoundError when the path does not
\* exist, the index when the pickle is complete, and an unpickling error
\* (EOFError, UnpicklingError) when it is not
load_index(d) ==
  IF ~d.exists THEN [status |-> "missing", ids |-> <<>>]
  ELSE IF Complete(d.bytes) THEN [status |-> "index", ids |-> SubSeq(d.bytes, 2, Len(d.bytes))]
  ELSE [status |-> "partial", ids |-> <<>>]

\* f.write at a file position: replaces the block there, or extends the
\* file, leaving holes when the position lies beyond its end
WriteAt(bytes, pos, block) ==
  [i \in 1..(IF pos > Len(bytes) THEN pos ELSE Len(bytes)) |->
     IF i = pos THEN block ELSE IF i <= Len(bytes) THEN bytes[i] ELSE Hole]

\* build_search_indexes, lines 150-170: load the existing index and build
\* the combined one; only FileNotFoundError is handled
IngestLoad(p) ==
  LET loaded == load_index(disk)
  IN /\ wpc[p] = "idle"
     /\ IF loaded.status = "partial"
        THEN /\ wpc' = [wpc EXCEPT ![p] = "failed"]
             /\ UNCHANGED wbuf
        ELSE /\ wpc' = [wpc EXCEPT ![p] = "loaded"]
             /\ wbuf' = [wbuf EXCEPT ![p] = Pickle(Append(loaded.ids, ChunkOf(p)))]
     /\ UNCHANGED <<disk, wpos, rd>>
     /\ UNCHANGED <<mainVars, pureVars, sumVars>>

\* save_index: open(filepath, "wb") truncates the artifact
SaveOpen(p) ==
  /\ wpc[p] = "loaded"
  /\ wpc' = [wpc EXCEPT ![p] = "writing"]
  /\ disk' = [exists |-> TRUE, bytes |-> <<>>]
  /\ wpos' = [wpos EXCEPT ![p] = 0]
  /\ UNCHANGED <<wbuf, rd>>
  /\ UNCHANGED <<mainVars, pureVars, sumVars>>

\* save_index: pickle.dump writes the next block at the handle's position
SaveWrite(p) ==
  /\ wpc[p] = "writing"
  /\ wpos[p] < Len(wbuf[p])
  /\ disk' = [disk EXCEPT !.bytes = WriteAt(@, wpos[p] + 1, wbuf[p][wpos[p] + 1])]
  /\ wpos' = [wpos EXCEPT ![p] = @ + 1]
  /\ UNCHANGED <<wpc, wbuf, rd>>
  /\ UNCHANGED <<mainVars, pureVars, sumVars>>

\* save_index: the with block closes the file
SaveClose(p) ==
  /\ wpc[p] = "writing"
  /\ wpos[p] = Len(wbuf[p])
  /\ wpc' = [wpc EXCEPT ![p] = "done"]
  /\ UNCHANGED <<disk, wbuf, wpos, rd>>
  /\ UNCHANGED <<mainVars, pureVars, sumVars>>

\* a query process loads the artifact: FusionRetriever.load_bm25_index
ReaderLoad ==
  /\ rd' = load_index(disk)
  /\ UNCHANGED <<disk, wpc, wbuf, wpos>>
  /\ UNCHANGED <<mainVars, pureVars, sumVars>>

RNext ==
  \/ \E p \in Writers : IngestLoad(p)
  \/ \E p \in Writers : SaveOpen(p)
  \/ \E p \in Writers : SaveWrite(p)
  \/ \E p \in Writers : SaveClose(p)
  \/ ReaderLoad

SpecRebuild == Init /\ [][RNext]_vars

(***************************************************************************)
(* The text-unit chunkers on one unit                                      *)
(*                                                                         *)
(* A unit is its list of tokens; a chunk is the window of tokens it holds  *)
(* and its 1-based ordinal within the unit.                                *)
(***************************************************************************)
\* tokens of the unit handed to a chunker
MaxUnitTokens == 5

\* largest max_tokens handed to a chunker
MaxBudget == 4

RECURSIVE Windows(_, _, _, _, _)
\* for i in range(i, n, max_tokens - overlap): tokens[i : i + max_tokens],
\* numbered from ordinal on
Windows(i, ordinal, n, max_tokens, overlap) ==
  IF i >= n THEN <<>>
  ELSE <<[ordinal |-> ordinal, start |-> i,
          len |-> IF i + max_tokens <= n THEN max_tokens ELSE n - i]>>
         \o Windows(i + (max_tokens - overlap), ordinal + 1, n, max_tokens, overlap)

\* GutenbergReader._chunk_split, BookParser._chunk_text,
\* MarkdownParser._chunk_text and ReportParser._chunk_text
chunk_text(n, max_tokens, overlap) == Windows(0, 1, n, max_tokens, overlap)

\* the heading a parser puts in front of a section's text ("## heading" and
\* a blank line, or the heading line and a blank line), as one token; the
\* tokens of the section itself are numbered from 1; in a list of source
\* lines, the line the split pattern matches
Heading == 0

\* the text of a window: the tokens start + 1 .. start + len of the section
Tokens(w) == [k \in 1..w.len |-> w.start + k]

\* a window as a chunk: the text field and the string whose hash is in the id
Chunk(w, text, hashed) ==
  [ordinal |-> w.ordinal, start |-> w.start, len |-> w.len, text |-> text, hashed |-> hashed]

\* the chunks of the windows of a section that does not fit one chunk
sub_chunks(n, max_tokens, overlap) ==
  LET ws == chunk_text(n, max_tokens, overlap)
  IN [k \in DOMAIN ws |-> Chunk(ws[k], Tokens(ws[k]), Tokens(ws[k]))]

\* GutenbergReader._parse_into_chunks on one section: every window becomes
\* a chunk with ordinal cid + 1
book_chunks(n, max_tokens, overlap) == sub_chunks(n, max_tokens, overlap)

\* MarkdownParser.chunk on one section
markdown_chunks(n, max_tokens, overlap) ==
  LET section == [ordinal |-> 1, start |-> 0, len |-> n]
  IN IF n <= max_tokens
     THEN <<Chunk(section, <<Heading>> \o Tokens(section), Tokens(section))>>
     ELSE sub_chunks(n, max_tokens, overlap)

\* ReportParser.chunk on one section
report_chunks(n, max_tokens, overlap) ==
  LET section == [ordinal |-> 1, start |-> 0, len |-> n]
  IN IF n <= max_tokens
     THEN <<Chunk(section, <<Heading>> \o Tokens(section), <<Heading>> \o Tokens(section))>>
     ELSE sub_chunks(n, max_tokens, overlap)

RECURSIVE section_split(_)
\* GutenbergReader._section_split: re.split at the lines the pattern
\* matches; a fragment is the number of tokens between two matches, 0 when
\* nothing is between them
section_split(lines) ==
  IF lines = <<>> THEN <<0>>
  ELSE LET before == section_split(SubSeq(lines, 1, Len(lines) - 1))
           line == lines[Len(lines)]
       IN IF line = Heading THEN Append(before, 0)
          ELSE [before EXCEPT ![Len(before)] = @ + line]

\* lines of a source file
MaxLines == 5

\* a unit (possibly empty) with a budget and an overlap below the budget,
\* or a source file as a list of lines: Heading, or the tokens of the line
UnitInputs ==
  {[kind |-> "unit", n |-> n, max_tokens |-> mt, overlap |-> ov] :
     n \in 0..MaxUnitTokens, mt \in 1..MaxBudget, ov \in 0..(MaxBudget - 1)}
  \cup {[kind |-> "lines", lines |-> ls] :
          ls \in UNION {[1..n -> {Heading} \cup (1..NumTexts)] : n \in 0..MaxLines}}

CInit ==
  /\ IdleMain
  /\ IdleRebuild
  /\ IdleSummarize
  /\ pIn \in {i \in UnitInputs : i.kind = "unit" => i.overlap < i.max_tokens}
  /\ pOut = NoCall

ChunkBook ==
  /\ pIn.kind = "unit"
  /\ pOut' = [kind |-> "book", chunks |-> book_chunks(pIn.n, pIn.max_tokens, pIn.overlap)]
  /\ UNCHANGED <<mainVars, rebuildVars, sumVars, pIn>>

ChunkTechDoc ==
  /\ pIn.kind = "unit"
  /\ pOut' = [kind |-> "tech_doc",
              chunks |-> markdown_chunks(pIn.n, pIn.max_tokens, pIn.overlap)]
  /\ UNCHANGED <<mainVars, rebuildVars, sumVars, pIn>>

ChunkReport ==
  /\ pIn.kind = "unit"
  /\ pOut' = [kind |-> "report",
              chunks |-> report_chunks(pIn.n, pIn.max_tokens, pIn.overlap)]
  /\ UNCHANGED <<mainVars, rebuildVars, sumVars, pIn>>

\* GutenbergReader.parse on a whole file: split, then number the sections
ParseBook ==
  /\ pIn.kind = "lines"
  /\ pOut' = [kind |-> "parse",
              chunks |-> parse_into_chunks(<<"a", "b">>, section_split(pIn.lines))]
  /\ UNCHANGED <<mainVars, rebuildVars, sumVars, pIn>>

CNext == ChunkBook \/ ChunkTechDoc \/ ChunkReport \/ ParseBook

SpecChunker == CInit /\ [][CNext]_vars

(***************************************************************************)
(* The conversation chunker                                                *)
(*                                                                         *)
(* A conversation is the list of the token counts of its turns; a chunk is *)
(* the range of turns it holds.  Positions are 1-based.                     *)
(***************************************************************************)
\* turns of a conversation
MaxTurns == 4

\* tokens of one turn
MaxTurnTokens == 3

\* largest max_tokens handed to the conversation chunker
MaxConvBudget == 2

\* largest overlap_turns (2 in the ingest pipeline)
MaxOverlapTurns == 2

RECURSIVE SumTokens(_, _, _)
\* the tokens of turns a..b
SumTokens(turns, a, b) == IF a > b THEN 0 ELSE turns[a] + SumTokens(turns, a + 1, b)

\* a variant that compares the turn alone with the budget
stop_on_large_turn(chunk_tokens, turn_tokens, max_tokens, has_turns) ==
  turn_tokens > max_tokens /\ has_turns

\* "if chunk_tokens + turn_tokens > max_tokens and chunk_turns: break"
stop_collecting(chunk_tokens, turn_tokens, max_tokens, has_turns) ==
  chunk_tokens + turn_tokens > max_tokens /\ has_turns

RECURSIVE Collect(_, _, _, _, _)
\* the inner while loop: the first turn after the collected ones
Collect(turns, position, current, chunk_tokens, max_tokens) ==
  IF current > Len(turns) THEN current
  ELSE IF stop_collecting(chunk_tokens, turns[current], max_tokens, current > position)
  THEN current
  ELSE Collect(turns, position, current + 1, chunk_tokens + turns[current], max_tokens)

RECURSIVE chunks_from(_, _, _, _, _)
\* ConversationParser.chunk from a position on
chunks_from(turns, position, chunk_index, max_tokens, overlap_turns) ==
  IF position > Len(turns) THEN <<>>
  ELSE LET collected == Collect(turns, position, position, 0, max_tokens)
           current == IF collected = position THEN position + 1 ELSE collected
           chunk == [index |-> chunk_index, turn_start |-> position, turn_end |-> current - 1,
                     num_tokens |-> SumTokens(turns, position, current - 1)]
       IN <<chunk>> \o chunks_from(turns, MaxOf(position + 1, current - overlap_turns),
                                  chunk_index + 1, max_tokens, overlap_turns)

\* ConversationParser.chunk
conversation_chunks(turns, max_tokens, overlap_turns) ==
  chunks_from(turns, 1, 1, max_tokens, overlap_turns)

Conversations == UNION {[1..n -> 0..MaxTurnTokens] : n \in 1..MaxTurns}

VInit ==
  /\ IdleMain
  /\ IdleRebuild
  /\ IdleSummarize
  /\ pIn \in {[kind |-> "conversation", turns |-> t, max_tokens |-> mt, overlap_turns |-> ov] :
               t \in Conversations, mt \in 1..MaxConvBudget, ov \in 0..MaxOverlapTurns}
  /\ pOut = NoCall

ChunkConversation ==
  /\ pOut' = [kind |-> "conversation",
              chunks |-> conversation_chunks(pIn.turns, pIn.max_tokens, pIn.overlap_turns)]
  /\ UNCHANGED <<mainVars, rebuildVars, sumVars, pIn>>

\* a variant without the advance by at least one turn
next_position_unfloored(position, current, overlap_turns) ==
  MaxOf(position, current - overlap_turns)

\* "position = max(position + 1, current - overlap_turns)"
next_position(position, current, overlap_turns) ==
  MaxOf(position + 1, current - overlap_turns)

\* one iteration of the outer while loop of ConversationParser.chunk: the
\* group that starts at position is emitted and position moves on
ChunkIteration ==
  LET position == IF pOut.kind = "loop" THEN pOut.position ELSE 1
      emitted == IF pOut.kind = "loop" THEN pOut.chunks ELSE <<>>
      collected == Collect(pIn.turns, position, position, 0, pIn.max_tokens)
      current == IF collected = position THEN position + 1 ELSE collected
  IN /\ pOut.kind \in {"none", "loop"}
     /\ position <= Len(pIn.turns)
     /\ pOut' = [kind |-> "loop",
                 position |-> next_position(position, current, pIn.overlap_turns),
                 chunks |-> Append(emitted,
                                   [index |-> Len(emitted) + 1, turn_start |-> position,
                                    turn_end |-> current - 1,
                                    num_tokens |-> SumTokens(pIn.turns, position, current - 1)])]
     /\ UNCHANGED <<mainVars, rebuildVars, sumVars, pIn>>

SpecConversation == VInit /\ [][ChunkConversation \/ ChunkIteration]_vars

(***************************************************************************)
(* The conversation diversifier                                            *)
(*                                                                         *)
(* A chunk is [id, speaker, ts]: ts is its timestamp in minutes, NoTs when *)
(* it has none or it does not parse; speaker is "" when it has none.       *)
(***************************************************************************)
\* chunks of a freely chosen result list
MaxDivChunks == 4

\* chunks of a result list of one speaker with evenly spaced timestamps
MaxUniformChunks == 10

\* MIN_TIME_GAP_SECONDS
MinTimeGapSeconds == 300

NoTs == -1

\* target_count = None
NoTarget == 0

\* the sort key: (timestamp or datetime.max, original_rank)
KeyLess(chunks, i, j) ==
  LET ti == chunks[i].ts
      tj == chunks[j].ts
  IN IF ti = tj THEN i < j
     ELSE IF ti = NoTs THEN FALSE
     ELSE IF tj = NoTs THEN TRUE
     ELSE ti < tj

RECURSIVE SortByTime(_, _)
\* chunks_with_meta.sort(...): the original ranks in sorted order
SortByTime(chunks, ranks) ==
  IF ranks = {} THEN <<>>
  ELSE LET first == CHOOSE i \in ranks : \A j \in ranks \ {i} : KeyLess(chunks, i, j)
       IN <<first>> \o SortByTime(chunks, ranks \ {first})

\* a variant that never counts a speaker
CountOfNone(speaker_counts, speaker) == 0

\* speaker_counts.get(speaker, 0)
CountOf(speaker_counts, speaker) ==
  IF speaker \in DOMAIN speaker_counts THEN speaker_counts[speaker] ELSE 0

RECURSIVE Select(_, _, _, _, _, _, _)
\* the selection loop over the sorted items, from item n on
Select(chunks, order, n, selected, speaker_counts, last_timestamp, target_count) ==
  IF n > Len(order) THEN selected
  ELSE
    LET item == chunks[order[n]]
        counted == IF item.speaker = "" THEN speaker_counts
                   ELSE Put(speaker_counts, item.speaker,
                            CountOf(speaker_counts, item.speaker) + 1)
        gap == (IF item.ts >= last_timestamp THEN item.ts - last_timestamp
                ELSE last_timestamp - item.ts) * 60
    IN IF item.speaker # "" /\ CountOf(speaker_counts, item.speaker) >= 2
       THEN Select(chunks, order, n + 1, selected, speaker_counts, last_timestamp,
                   target_count)
       ELSE IF item.ts # NoTs /\ last_timestamp # NoTs /\ gap < MinTimeGapSeconds
       THEN Select(chunks, order, n + 1, selected, counted, last_timestamp, target_count)
       ELSE IF Len(selected) + 1 >= target_count
       THEN Append(selected, item)
       ELSE Select(chunks, order, n + 1, Append(selected, item), counted, item.ts,
                   target_count)

\* _diversify_conversation_results
diversify_conversation_results(chunks, target_count) ==
  IF Len(chunks) <= 3 THEN chunks
  ELSE Select(chunks, SortByTime(chunks, DOMAIN chunks), 1, <<>>, <<>>, NoTs,
              IF target_count = NoTarget THEN MaxOf(5, Len(chunks) \div 2)
              ELSE target_count)

\* the chunks search_book_content rebuilds from the hydrated payloads: id
\* and text only, the metadata is {}
chunks_with_text(chunks) ==
  [n \in DOMAIN chunks |-> [id |-> chunks[n].id, speaker |-> "", ts |-> NoTs]]

\* search_book_content, lines 153-176, on a conversation document
search_diversified(chunks) ==
  IF Len(chunks_with_text(chunks)) > 5
  THEN diversify_conversation_results(chunks_with_text(chunks), NoTarget)
  ELSE chunks_with_text(chunks)

ChunkMeta == {[speaker |-> sp, ts |-> t] : sp \in {"A", ""}, t \in {NoTs, 0, 5}}

\* result lists chosen freely
FreeResults ==
  {[n \in DOMAIN f |-> [id |-> n, speaker |-> f[n].speaker, ts |-> f[n].ts]] :
     f \in UNION {[1..n -> ChunkMeta] : n \in 0..MaxDivChunks}}

\* result lists of speaker A, gap minutes apart, in time order
UniformResults ==
  {[n \in 1..len |-> [id |-> n, speaker |-> "A", ts |-> (n - 1) * gap]] :
     len \in 1..MaxUniformChunks, gap \in {1, 5}}

DInit ==
  /\ IdleMain
  /\ IdleRebuild
  /\ IdleSummarize
  /\ pIn \in {[kind |-> "results", chunks |-> c, target_count |-> t] :
               c \in FreeResults \cup UniformResults, t \in {NoTarget, 1, 2, 5}}
  /\ pOut = NoCall

Diversify ==
  /\ pOut' = [kind |-> "diversify",
              chunks |-> diversify_conversation_results(pIn.chunks, pIn.target_count)]
  /\ UNCHANGED <<mainVars, rebuildVars, sumVars, pIn>>

SearchDiversified ==
  /\ pOut' = [kind |-> "search", chunks |-> search_diversified(pIn.chunks)]
  /\ UNCHANGED <<mainVars, rebuildVars, sumVars, pIn>>

DNext == Diversify \/ SearchDiversified

SpecDiversify == DInit /\ [][DNext]_vars

(***************************************************************************)
(* Summarisation: the requests of one summarize_hierarchy call             *)
(*                                                                         *)
(* layout[c] is the number of batches of chapter c, bpc[c][b] the position *)
(* of the batch task b of chapter c, cpc[c] the position of the chapter's  *)
(* combine step, kpc the position of summarize_book, the batches it has    *)
(* left and the batch_summaries it has collected, sem the value of the     *)
(* semaphore.                                                              *)
(***************************************************************************)
MaxChapters == 2

MaxBatches == 3

MaxBookBatches == 2

Chapters == DOMAIN layout

\* summarize_chapter has returned for chapter c
ChapterDone(c) ==
  /\ \A b \in DOMAIN bpc[c] : bpc[c][b] = "done"
  /\ layout[c] > 1 => cpc[c] = "done"

\* the variant in which summarize_book does not wait for the chapters
ChaptersStarted == \A c \in Chapters : bpc[c] # <<>>

\* chapter_summaries = await asyncio.gather(*tasks)
ChaptersGathered == \A c \in Chapters : ChapterDone(c)

\* the chat.completions.create calls that have not returned yet
InFlight ==
  Cardinality({cb \in Chapters \X (1..MaxBatches) :
                 cb[2] \in DOMAIN bpc[cb[1]] /\ bpc[cb[1]][cb[2]] = "run"})
  + Cardinality({c \in Chapters : cpc[c] = "run"})
  + (IF kpc.phase \in {"single", "run", "final_run"} THEN 1 ELSE 0)

SInit ==
  /\ IdleMain
  /\ IdleRebuild
  /\ IdlePure
  /\ sem = SemaphorePermits
  /\ layout \in UNION {[1..n -> 1..MaxBatches] : n \in 1..MaxChapters}
  /\ bpc = [c \in DOMAIN layout |-> [b \in 1..layout[c] |-> "wait"]]
  /\ cpc = [c \in DOMAIN layout |-> "gather"]
  /\ kpc = [phase |-> "idle", left |-> 0, parts |-> 0]

\* summarize_text_batch enters 'async with self.semaphore' and sends
BatchAcquire(c, b) ==
  /\ bpc[c][b] = "wait"
  /\ sem > 0
  /\ sem' = sem - 1
  /\ bpc' = [bpc EXCEPT ![c][b] = "run"]
  /\ UNCHANGED <<mainVars, rebuildVars, pureVars, layout, cpc, kpc>>

\* a variant that keeps the permit when the response arrives
BatchReleaseKeepsPermit(c, b) ==
  /\ bpc[c][b] = "run"
  /\ bpc' = [bpc EXCEPT ![c][b] = "done"]
  /\ UNCHANGED <<mainVars, rebuildVars, pureVars, sem, layout, cpc, kpc>>

\* the response arrives and summarize_text_batch leaves the semaphore
BatchRelease(c, b) ==
  /\ bpc[c][b] = "run"
  /\ sem' = sem + 1
  /\ bpc' = [bpc EXCEPT ![c][b] = "done"]
  /\ UNCHANGED <<mainVars, rebuildVars, pureVars, layout, cpc, kpc>>

\* summarize_chapter, more than one batch: the gather has returned and the
\* combining request is sent under the semaphore
CombineAcquire(c) ==
  /\ layout[c] > 1
  /\ cpc[c] = "gather"
  /\ \A b \in DOMAIN bpc[c] : bpc[c][b] = "done"
  /\ sem > 0
  /\ sem' = sem - 1
  /\ cpc' = [cpc EXCEPT ![c] = "run"]
  /\ UNCHANGED <<mainVars, rebuildVars, pureVars, layout, bpc, kpc>>

CombineRelease(c) ==
  /\ cpc[c] = "run"
  /\ sem' = sem + 1
  /\ cpc' = [cpc EXCEPT ![c] = "done"]
  /\ UNCHANGED <<mainVars, rebuildVars, pureVars, layout, bpc, kpc>>

\* summarize_book starts: one batch is sent at once, outside the semaphore;
\* several batches are sent one after the other under it
BookStart ==
  /\ kpc.phase = "idle"
  /\ ChaptersGathered
  /\ \E batches \in 1..MaxBookBatches :
       kpc' = IF batches = 1 THEN [phase |-> "single", left |-> 0, parts |-> 0]
              ELSE [phase |-> "wait", left |-> batches, parts |-> 0]
  /\ UNCHANGED <<mainVars, rebuildVars, pureVars, sem, layout, bpc, cpc>>

BookSingleDone ==
  /\ kpc.phase = "single"
  /\ kpc' = [kpc EXCEPT !.phase = "done"]
  /\ UNCHANGED <<mainVars, rebuildVars, pureVars, sem, layout, bpc, cpc>>

BookAcquire ==
  /\ kpc.phase = "wait"
  /\ sem > 0
  /\ sem' = sem - 1
  /\ kpc' = [kpc EXCEPT !.phase = "run"]
  /\ UNCHANGED <<mainVars, rebuildVars, pureVars, layout, bpc, cpc>>

BookRelease ==
  /\ kpc.phase = "run"
  /\ sem' = sem + 1
  /\ kpc' = [phase |-> IF kpc.left > 1 THEN "wait" ELSE "final_wait",
             left |-> kpc.left - 1,
             parts |-> kpc.parts + 1]
  /\ UNCHANGED <<mainVars, rebuildVars, pureVars, layout, bpc, cpc>>

\* the final synthesis
FinalAcquire ==
  /\ kpc.phase = "final_wait"
  /\ sem > 0
  /\ sem' = sem - 1
  /\ kpc' = [kpc EXCEPT !.phase = "final_run"]
  /\ UNCHANGED <<mainVars, rebuildVars, pureVars, layout, bpc, cpc>>

FinalRelease ==
  /\ kpc.phase = "final_run"
  /\ sem' = sem + 1
  /\ kpc' = [kpc EXCEPT !.phase = "done"]
  /\ UNCHANGED <<mainVars, rebuildVars, pureVars, layout, bpc, cpc>>

SNext ==
  \/ \E c \in Chapters : \E b \in DOMAIN bpc[c] : BatchAcquire(c, b)
  \/ \E c \in Chapters : \E b \in DOMAIN bpc[c] : BatchRelease(c, b)
  \/ \E c \in Chapters : CombineAcquire(c)
  \/ \E c \in Chapters : CombineRelease(c)
  \/ BookStart
  \/ BookSingleDone
  \/ BookAcquire
  \/ BookRelease
  \/ FinalAcquire
  \/ FinalRelease

SpecSummarize == SInit /\ [][SNext]_vars

\* every request that was sent is answered and the event loop runs a task
\* that can go on: some step is taken as long as one is possible
SpecSummarizeFair == SpecSummarize /\ WF_vars(SNext)

(***************************************************************************)
(* The fusion functions on their own                                       *)
(***************************************************************************)
\* longest ranking handed to a fusion function
MaxRank == 3

\* largest k handed to a fusion function
MaxK == 3

FusionIds == {"A", "B", "C", "D"}

\* alpha in tenths: 0.0, 0.5, 0.7 and 1.0
Alphas == {0, 5, 7, 10}

\* rankings without duplicate ids
Rankings ==
  {r \in UNION {[1..n -> FusionIds] : n \in 0..MaxRank} :
     \A i, j \in DOMAIN r : r[i] = r[j] => i = j}

FInit ==
  /\ books = <<>>
  /\ summaries = <<>>
  /\ bm25File = [exists |-> FALSE, chunks |-> <<>>]
  /\ vec = [exists |-> FALSE, points |-> <<>>]
  /\ last = NoLast
  /\ steps = 0
  /\ clean = TRUE
  /\ upserted = {}
  /\ fBm25 \in Rankings
  /\ fEmbed \in Rankings
  /\ fAlpha \in Alphas
  /\ fK \in 0..MaxK
  /\ fOut = NoFusion
  /\ IdleAux

WeightedFusion ==
  /\ fOut' = [op |-> "weighted", ids |-> weighted_fusion(fBm25, fEmbed, fAlpha, fK)]
  /\ UNCHANGED <<fBm25, fEmbed, fAlpha, fK>>
  /\ UNCHANGED <<sysVars, last, steps, clean, upserted, auxVars>>

RrfFusion ==
  /\ fOut' = [op |-> "rrf", ids |-> rrf_fusion(fBm25, fEmbed, fK, RrfC)]
  /\ UNCHANGED <<fBm25, fEmbed, fAlpha, fK>>
  /\ UNCHANGED <<sysVars, last, steps, clean, upserted, auxVars>>

FNext == WeightedFusion \/ RrfFusion

SpecFusion == FInit /\ [][FNext]_vars

(***************************************************************************)
(* Properties of the stores and indexes                                    *)
(***************************************************************************)
\* the number of ids in the persisted lexical index that begin with "<slug>_"
PrefixCount(chunks, slug) ==
  Cardinality({i \in DOMAIN chunks : StartsWith(chunks[i].id, slug \o <<"_">>)})

\* the slug pattern of the ingest form: ^[a-z0-9_-]+$ and 2 to 20 characters
slug_pattern_ok(slug) ==
  /\ \A i \in DOMAIN slug : slug[i] \in AlnumChars \cup {"_", "-"}
  /\ Len(slug) >= 2
  /\ Len(slug) <= 20

\* C1: after any sequence of successful ingests, force re-ingests and
\* deletes, every document record's num_chunks equals the number of ids in
\* the persisted lexical index that begin with "<slug>_".
C1_NumChunksMatchesIndex ==
  clean => \A slug \in DOMAIN books :
             books[slug].num_chunks = PrefixCount(bm25File.chunks, slug)

\* C2: once a document S has been ingested and delete_book(S) has succeeded,
\* no chunk id with prefix "S_" is left in the lexical index or in the vector
\* index, S has no document summary and no section summaries, and a lexical
\* search restricted to S returns the empty list.
C2_DeleteLeavesNoTrace ==
  (clean /\ last.op = "delete" /\ last.ok) =>
    /\ PrefixCount(bm25File.chunks, last.slug) = 0
    /\ \A k \in DOMAIN vec.points :
         ~StartsWith(vec.points[k].id, last.slug \o <<"_">>)
    /\ ~has_book_summary(summaries, last.slug)
    /\ get_all_chapter_summaries(summaries, last.slug) = {}
    /\ \A q \in Queries, k \in 1..MaxTopK :
         bm25_search(bm25File.chunks, q, k, last.slug) = <<>>

\* C3: in every state reached by successful ingests, force re-ingests and
\* deletes, every chunk of the vector index is also in the lexical index.
C3_VectorSubsetOfLexical ==
  clean => \A k \in DOMAIN vec.points :
             \E i \in DOMAIN bm25File.chunks :
               bm25File.chunks[i].id = vec.points[k].id

\* C4: an ingest_document step that fails with force_update = false leaves
\* the relational store, the lexical index and the vector index unchanged.
C4_FailedIngestPreservesState ==
  [][(last'.op = "ingest" /\ ~last'.ok /\ ~last'.force /\ steps' = steps + 1)
       => UNCHANGED sysVars]_vars

\* C5: a search scoped to the slug S of an ingested document, all ingested
\* slugs matching the slug pattern, returns only chunk ids of document S.
C5_ScopedSearchReturnsOwnChunks ==
  (/\ clean
   /\ last.op = "search"
   /\ last.slug \in DOMAIN books
   /\ \A s \in DOMAIN books : slug_pattern_ok(s)) =>
    \A i \in DOMAIN last.ids : OwnerOf(last.ids[i]) = last.slug

\* C9: a search with the lexical artifact missing returns the ids of the
\* vector search; with the vector collection missing it returns the first
\* top_k ids of the lexical ranking; with both missing it returns the empty
\* list; and in none of the three cases does it raise.
C9_DegenerateModes ==
  last.op = "search" =>
    /\ (~bm25File.exists /\ vec.exists) => (last.ok /\ last.ids = last.embed)
    /\ (bm25File.exists /\ ~vec.exists) =>
         (last.ok /\ last.ids = IdsOf(Take(last.bm25, last.topk)))
    /\ (~bm25File.exists /\ ~vec.exists) => (last.ok /\ last.ids = <<>>)

RankIn(ranking, id) ==
  IF id \in Range(ranking) THEN CHOOSE r \in DOMAIN ranking : ranking[r] = id ELSE 0

\* alpha / r + (1 - alpha) / r', in units of 1 / (10 * lcm(1..MaxRank))
ClaimedWeighted(id) ==
  LET u == LcmRange(1, MaxRank)
      rl == RankIn(fBm25, id)
      rv == RankIn(fEmbed, id)
  IN (IF rl > 0 THEN fAlpha * (u \div rl) ELSE 0)
       + (IF rv > 0 THEN (10 - fAlpha) * (u \div rv) ELSE 0)

\* 1 / (c + r) + 1 / (c + r'), in units of 1 / lcm(c+1..c+MaxRank)
ClaimedRrf(id) ==
  LET u == LcmRange(RrfC + 1, RrfC + MaxRank)
      rl == RankIn(fBm25, id)
      rv == RankIn(fEmbed, id)
  IN (IF rl > 0 THEN u \div (RrfC + rl) ELSE 0)
       + (IF rv > 0 THEN u \div (RrfC + rv) ELSE 0)

FusionCandidates == Range(fBm25) \cup Range(fEmbed)

ExampleLists == fBm25 = <<"A", "B", "C">> /\ fEmbed = <<"B", "D", "A">>

\* C6: weighted fusion returns min(top_k, number of ids) distinct ids, in
\* descending order of alpha/r + (1-alpha)/r', none of them scoring less than
\* an id left out; [A,B,C], [B,D,A], alpha 0.7, top_k 2 gives [A,B].
C6_WeightedFusion ==
  fOut.op = "weighted" =>
    /\ Len(fOut.ids) = (IF fK < Cardinality(FusionCandidates) THEN fK
                        ELSE Cardinality(FusionCandidates))
    /\ Range(fOut.ids) \subseteq FusionCandidates
    /\ \A i, j \in DOMAIN fOut.ids :
         i < j => /\ fOut.ids[i] # fOut.ids[j]
                  /\ ClaimedWeighted(fOut.ids[i]) >= ClaimedWeighted(fOut.ids[j])
    /\ \A x \in FusionCandidates \ Range(fOut.ids) : \A i \in DOMAIN fOut.ids :
         ClaimedWeighted(fOut.ids[i]) >= ClaimedWeighted(x)
    /\ (ExampleLists /\ fAlpha = 7 /\ fK = 2) => fOut.ids = <<"A", "B">>

C6_Witness ==
  /\ fOut.op = "weighted"
  /\ ExampleLists /\ fAlpha = 7 /\ fK = 2
  /\ fOut.ids = <<"A", "B">>

\* C7: reciprocal-rank fusion returns min(k, number of ids) distinct ids, in
\* descending order of the sum of 1/(60+r), none of them scoring less than an
\* id left out; [A,B,C], [B,D,A], k 2 gives [B,A].
C7_RrfFusion ==
  fOut.op = "rrf" =>
    /\ Len(fOut.ids) = (IF fK < Cardinality(FusionCandidates) THEN fK
                        ELSE Cardinality(FusionCandidates))
    /\ Range(fOut.ids) \subseteq FusionCandidates
    /\ \A i, j \in DOMAIN fOut.ids :
         i < j => /\ fOut.ids[i] # fOut.ids[j]
                  /\ ClaimedRrf(fOut.ids[i]) >= ClaimedRrf(fOut.ids[j])
    /\ \A x \in FusionCandidates \ Range(fOut.ids) : \A i \in DOMAIN fOut.ids :
         ClaimedRrf(fOut.ids[i]) >= ClaimedRrf(x)
    /\ (ExampleLists /\ fK = 2) => fOut.ids = <<"B", "A">>

C7_Witness ==
  /\ fOut.op = "rrf"
  /\ ExampleLists /\ fK = 2
  /\ fOut.ids = <<"B", "A">>

\* C8: rrf_fusion(A, A, k) is the first k ids of A, in A's order.
C8_RrfIdempotence ==
  (fOut.op = "rrf" /\ fBm25 = fEmbed) => fOut.ids = Take(fBm25, fK)

C8_Witness ==
  /\ fOut.op = "rrf"
  /\ fBm25 = fEmbed
  /\ Len(fBm25) = MaxRank
  /\ fK = 2
  /\ fOut.ids = <<fBm25[1], fBm25[2]>>

(***************************************************************************)
(* Properties of hydration                                                 *)
(***************************************************************************)
\* C11: once the chunks of the ingested documents have been upserted,
\* get_chunks_by_ids([id]) for the id of an upserted chunk returns the one
\* payload with that id and the text the chunker emitted for it.
C11_HydrateRoundTrip ==
  (last.op = "hydrate" /\ last.fail_pos = 0 /\ Len(last.req) = 1) =>
    \A c \in upserted :
      c.id = last.req[1] => last.payloads = <<[id |-> c.id, text |-> c.text]>>

\* C12: hydration returns one payload per requested id, in request order,
\* and the payload of an id that is not stored is the sentinel with that id
\* and the text "[Text not found]".
C12_HydrateSentinel ==
  last.op = "hydrate" =>
    /\ Len(last.payloads) = Len(last.req)
    /\ \A n \in DOMAIN last.req :
         /\ n \in DOMAIN last.payloads
         /\ (\A k \in DOMAIN vec.points : vec.points[k].id # last.req[n]) =>
              last.payloads[n] = [id |-> last.req[n], text |-> TextNotFound]

(***************************************************************************)
(* Properties of the lexical artifact                                      *)
(***************************************************************************)
\* C13: a reader that loads the lexical artifact while an ingest is saving
\* it never observes a partially written artifact: every load gives a
\* complete index (or, before the first save, no artifact at all).
C13_NoPartialLoad == rd.status # "partial"

\* C14: at most one ingest at a time is between loading the existing
\* lexical index and having saved the rebuilt one.
C14_SingleRebuilder ==
  Cardinality({p \in Writers : wpc[p] \in {"loaded", "writing"}}) <= 1

(***************************************************************************)
(* Properties of slug validation                                           *)
(***************************************************************************)
\* C15: an ingest whose slug does not match ^[a-z0-9_-]{2,20}$, or whose slug
\* is already in the documents table while force is not set, is rejected at
\* validation, and no store or index is written.
C15_SlugValidation ==
  [][(/\ last'.op = "ingest"
      /\ steps' = steps + 1
      /\ \/ ~slug_pattern_ok(last'.slug)
         \/ (book_exists(books, last'.slug) /\ ~last'.force))
       => (~last'.ok /\ last'.stage = "validate" /\ UNCHANGED sysVars)]_vars

(***************************************************************************)
(* Properties of the chunkers                                              *)
(***************************************************************************)
\* C16: every text-unit chunker (book, tech-doc, report), for every overlap
\* below max_tokens, emits a single non-empty unit of at most max_tokens
\* tokens as exactly one chunk, with ordinal 001.
C16_ShortUnitOneChunk ==
  (pOut.kind \in {"book", "tech_doc", "report"} /\ 1 <= pIn.n /\ pIn.n <= pIn.max_tokens) =>
    /\ Len(pOut.chunks) = 1
    /\ pOut.chunks[1].ordinal = 1

\* the chunks that hold turn q
ChunksWith(q) ==
  {k \in DOMAIN pOut.chunks : pOut.chunks[k].turn_start <= q /\ q <= pOut.chunks[k].turn_end}

\* C17: every chunk of a conversation has a turn-token sum of at most
\* max_tokens or consists of exactly one turn, and a turn of more than
\* max_tokens tokens is in exactly one chunk, which holds only that turn.
C17_ConversationBudget ==
  pOut.kind = "conversation" =>
    /\ \A k \in DOMAIN pOut.chunks :
         \/ SumTokens(pIn.turns, pOut.chunks[k].turn_start, pOut.chunks[k].turn_end)
              <= pIn.max_tokens
         \/ pOut.chunks[k].turn_start = pOut.chunks[k].turn_end
    /\ \A q \in DOMAIN pIn.turns :
         pIn.turns[q] > pIn.max_tokens =>
           /\ Cardinality(ChunksWith(q)) = 1
           /\ \A k \in ChunksWith(q) :
                pOut.chunks[k].turn_start = q /\ pOut.chunks[k].turn_end = q

\* a turn above the budget between smaller turns, packed with overlap
C17_Witness ==
  /\ pOut.kind = "conversation"
  /\ pIn.overlap_turns = 2
  /\ Len(pIn.turns) = 4
  /\ pIn.turns[3] > pIn.max_tokens
  /\ pIn.turns[1] + pIn.turns[2] <= pIn.max_tokens
  /\ pIn.turns[1] > 0
  /\ pIn.turns[2] > 0
  /\ Len(pOut.chunks) >= 3

(***************************************************************************)
(* Properties of the diversifier                                           *)
(***************************************************************************)
RECURSIVE ClaimedSelect(_, _, _, _, _, _)
\* the selection as stated: a chunk is accepted iff its speaker has fewer
\* than 2 accepted chunks and its timestamp is absent or at least 300
\* seconds after the previously accepted chunk that has one
ClaimedSelect(chunks, order, n, selected, last_ts, target_count) ==
  IF n > Len(order) \/ Len(selected) >= target_count THEN selected
  ELSE
    LET item == chunks[order[n]]
        accepted_of_speaker ==
          Cardinality({k \in DOMAIN selected : selected[k].speaker = item.speaker})
        accept == /\ (item.speaker = "" \/ accepted_of_speaker < 2)
                  /\ \/ item.ts = NoTs
                     \/ last_ts = NoTs
                     \/ (item.ts - last_ts) * 60 >= MinTimeGapSeconds
    IN IF accept
       THEN ClaimedSelect(chunks, order, n + 1, Append(selected, item),
                          IF item.ts = NoTs THEN last_ts ELSE item.ts, target_count)
       ELSE ClaimedSelect(chunks, order, n + 1, selected, last_ts, target_count)

\* C18: on more than five chunks the diversifier returns the chunks
\* accepted, in (timestamp, rank) order, by the rule "speaker has fewer than
\* 2 accepted chunks, and timestamp absent or at least 300 seconds after the
\* previously accepted timestamped chunk", up to the target; ten chunks of
\* speaker A one minute apart with target 5 give a result of size 2.
C18_DiversifierRule ==
  (pOut.kind = "diversify" /\ Len(pIn.chunks) > 5) =>
    /\ pOut.chunks =
         ClaimedSelect(pIn.chunks, SortByTime(pIn.chunks, DOMAIN pIn.chunks), 1, <<>>, NoTs,
                       IF pIn.target_count = NoTarget
                       THEN MaxOf(5, Len(pIn.chunks) \div 2) ELSE pIn.target_count)
    /\ (/\ Len(pIn.chunks) = 10
        /\ pIn.target_count = 5
        /\ \A n \in DOMAIN pIn.chunks :
             pIn.chunks[n].speaker = "A" /\ pIn.chunks[n].ts = n - 1)
         => Len(pOut.chunks) = 2

\* C19: on at most 5 chunks the diversifier returns its input unchanged,
\* called directly or through search_book_content.
C19_SmallInputUnchanged ==
  (pOut.kind \in {"diversify", "search"} /\ Len(pIn.chunks) <= 5) =>
    /\ Len(pOut.chunks) = Len(pIn.chunks)
    /\ \A n \in DOMAIN pIn.chunks : pOut.chunks[n].id = pIn.chunks[n].id

(***************************************************************************)
(* Properties of summarisation                                             *)
(***************************************************************************)
\* C20: during summarize_hierarchy, whatever the number of sections and of
\* batches per section, at no time are more than 4 requests in flight.
C20_AtMostFourInFlight == InFlight <= 4

\* four requests are in flight and a fifth batch task waits for a permit
C20_Witness ==
  /\ InFlight = 4
  /\ sem = 0
  /\ \E c \in Chapters : \E b \in DOMAIN bpc[c] : bpc[c][b] = "wait"

(***************************************************************************)
(* Properties of the last ten claims                                       *)
(***************************************************************************)
\* C25: ConversationParser.chunk terminates for every turn list, every
\* max_tokens >= 1 and every overlap_turns >= 0: each group starts strictly
\* after the previous one, also when overlap_turns is at least the size of
\* the group, so there are at most as many groups as turns.
C25_ForwardProgress ==
  [][pOut'.kind = "loop" =>
       /\ pOut'.position > (IF pOut.kind = "loop" THEN pOut.position ELSE 1)
       /\ Len(pOut'.chunks) <= Len(pIn.turns)]_vars

\* the loop has ended after a group no larger than the overlap was followed
\* by another group
C25_Witness ==
  /\ pOut.kind = "loop"
  /\ pOut.position > Len(pIn.turns)
  /\ \E k \in DOMAIN pOut.chunks :
       /\ k < Len(pOut.chunks)
       /\ pOut.chunks[k].turn_end - pOut.chunks[k].turn_start + 1 <= pIn.overlap_turns

\* C30: no chunk of a conversation has a turn range contained in the turn
\* range of an earlier chunk; a conversation whose turns together fit
\* max_tokens is emitted as exactly one chunk.
C30_NoContainedChunk ==
  pOut.kind = "conversation" =>
    /\ \A j, k \in DOMAIN pOut.chunks :
         j < k => ~(/\ pOut.chunks[j].turn_start <= pOut.chunks[k].turn_start
                    /\ pOut.chunks[k].turn_end <= pOut.chunks[j].turn_end)
    /\ SumTokens(pIn.turns, 1, Len(pIn.turns)) <= pIn.max_tokens => Len(pOut.chunks) = 1

\* C26: on more than 3 chunks and a target_count of at least 1 the result of
\* the diversifier is not empty, has at most target_count chunks, has at most
\* 2 chunks of any speaker, and two consecutive chunks of it that both have a
\* timestamp are at least 300 seconds apart.
C26_DiversifierBounds ==
  (pOut.kind = "diversify" /\ Len(pIn.chunks) > 3 /\ pIn.target_count >= 1) =>
    /\ pOut.chunks # <<>>
    /\ Len(pOut.chunks) <= pIn.target_count
    /\ \A k \in DOMAIN pOut.chunks :
         pOut.chunks[k].speaker # "" =>
           Cardinality({j \in DOMAIN pOut.chunks :
                          pOut.chunks[j].speaker = pOut.chunks[k].speaker}) <= 2
    /\ \A k \in DOMAIN pOut.chunks :
         (k > 1 /\ pOut.chunks[k].ts # NoTs /\ pOut.chunks[k - 1].ts # NoTs) =>
           \/ (pOut.chunks[k].ts - pOut.chunks[k - 1].ts) * 60 >= MinTimeGapSeconds
           \/ (pOut.chunks[k - 1].ts - pOut.chunks[k].ts) * 60 >= MinTimeGapSeconds

\* two chunks of one speaker five minutes apart were kept and a third chunk
\* of that speaker was left out
C26_Witness ==
  /\ pOut.kind = "diversify"
  /\ pIn.target_count = 5
  /\ Len(pOut.chunks) = 2
  /\ pOut.chunks[1].speaker = "A" /\ pOut.chunks[1].ts = 0
  /\ pOut.chunks[2].speaker = "A" /\ pOut.chunks[2].ts = 5
  /\ \E n \in DOMAIN pIn.chunks :
       /\ pIn.chunks[n].speaker = "A"
       /\ pIn.chunks[n].ts = NoTs

\* C29: if every LLM call returns, summarize_hierarchy returns, for any
\* number of sections and of batches per section: the semaphore of 4 permits
\* does not deadlock, and the document summary is requested only after every
\* section summary has completed.
C29_SummarizeReturns ==
  /\ [](kpc.phase # "idle" => ChaptersGathered)
  /\ <>(kpc.phase = "done")

\* summarize_hierarchy has returned for a document with more batch tasks
\* than permits and a document summary made in several parts
C29_Witness ==
  /\ kpc.phase = "done"
  /\ kpc.parts > 1
  /\ Cardinality({cb \in Chapters \X (1..MaxBatches) : cb[2] \in DOMAIN bpc[cb[1]]})
       > SemaphorePermits

\* C21: search_book_content never raises: it returns a record with a chunks
\* list and num_results equal to its length; the error field is present iff
\* the identifier could not be resolved or a step failed, so a result with
\* no error and num_results = 0 is a legitimate empty result: the document
\* exists and the retrieval found no chunk for the query.
C21_SearchErrorField ==
  LET r == adaptive_search(bm25File, vec, last.query, last.topk,
                           IF last.kind = "slug" THEN last.slug
                           ELSE IF last.kind = "title" THEN <<"T">> \o last.slug
                           ELSE <<"1">>, last.rev)
      step_failed == \/ last.fail # "none"
                     \/ r.raised
                     \/ (last.kind = "id" /\ last.strict /\ vec.exists)
  IN last.op = "search_content" =>
       /\ last.num_results = Len(last.payloads)
       /\ (last.error # "") <=> (~book_exists(books, last.slug) \/ step_failed)
       /\ (last.error = "" /\ last.num_results = 0) =>
            (book_exists(books, last.slug) /\ r.ids = <<>>)

\* C28: search_book_content returns the same chunk list for a document
\* whether it is identified by its slug, by its title or by its integer id:
\* the filter applied to both indexes is the slug of the resolved document.
C28_SameResultByAnyIdentifier ==
  (last.op = "search_content" /\ last.fail = "none" /\ book_exists(books, last.slug)) =>
    last.payloads =
      search_book_content(books, bm25File, vec, last.query, "slug", last.slug, FALSE,
                          last.topk, last.rev, "none").chunks

\* C22: the unit numbers in the chunk ids of a document are dense from 1 in
\* reading order: an empty or dropped fragment of the split consumes no unit
\* number, so a source of the form marker line, heading, text, heading, text
\* gives exactly two chunks, numbered 01 and 02.
C22_UnitNumbersDense ==
  pOut.kind = "parse" =>
    /\ \A n \in DOMAIN pOut.chunks : IntOf(Segment2(pOut.chunks[n].id)) = n
    /\ (/\ Len(pIn.lines) = 5
        /\ pIn.lines[1] = 1
        /\ pIn.lines[2] = Heading
        /\ pIn.lines[3] # Heading
        /\ pIn.lines[4] = Heading
        /\ pIn.lines[5] # Heading)
         => Len(pOut.chunks) = 2

\* C23: in every chunk of every chunker the hash in the id is the hash of the
\* chunk's text field, the text that is embedded and indexed, also for a
\* single-window chunk whose text starts with the heading.
C23_HashOfText ==
  pOut.kind \in {"book", "tech_doc", "report"} =>
    \A k \in DOMAIN pOut.chunks : pOut.chunks[k].hashed = pOut.chunks[k].text

\* C24: a unit whose text is empty produces no chunk, in the book reader, the
\* tech-doc chunker and the report chunker.
C24_EmptyUnitNoChunk ==
  (pOut.kind \in {"book", "tech_doc", "report"} /\ pIn.n = 0) => pOut.chunks = <<>>

\* the chunks of the lexical index that belong to documents other than slug
ChunksOfOthers(chunks, slug) == SelectSeq(chunks, LAMBDA c : OwnerOf(c.id) # slug)

\* C27: delete_book(S) removes from the lexical index exactly the chunks of
\* S: the chunks of every other document, for slugs that pass validation,
\* are still in the index afterwards, in the same relative order.
C27_DeleteKeepsOthers ==
  [][(last'.op = "delete" /\ steps' = steps + 1) =>
       ChunksOfOthers(bm25File'.chunks, last'.slug)
         = ChunksOfOthers(bm25File.chunks, last'.slug)]_vars

====
